---- MODULE Spec2Model ----
\* Raw-corpus collection (scripts/01_collect_raw.py and download_data.py):
\* load a dataset, normalize each raw record, bound the stream with an
\* optional limit, and write the records as line-delimited JSON.
EXTENDS Integers, Sequences, FiniteSets, TLC

\* ---------------------------------------------------------------- bounds
MaxStrLen == 2      \* longest string enumerated for a raw field
MaxListLen == 2     \* longest list enumerated for a raw field
MaxRaw == 3         \* longest raw source (one period of an unbounded one)
MaxLimit == 2       \* largest --limit
MaxPulls == 6       \* raw records pulled from an unbounded source at most

\* ------------------------------------------------- Python values (tagged)
\* A string is a sequence of characters; "nl" is the newline character.
Chars == {" ", "a", "nl"}
Whitespace == {" ", "nl"}

PyNone == <<"none">>
Missing == <<"missing">>            \* the key is not in the mapping
Str(s) == <<"str", s>>
PyInt(i) == <<"int", i>>
List(items) == <<"list", items>>
Dict(v) == <<"dict", v>>            \* {"text": v}; Dict(Missing) is {}
Lit(t) == Str(<<t>>)                \* a literal of the code, e.g. "hi"
EmptyStr == Str(<<>>)

IsStr(v) == v[1] = "str"
IsList(v) == v[1] = "list"
IsDict(v) == v[1] = "dict"

\* Python truthiness (bool(x)).
Truthy(v) ==
    CASE v[1] = "none" -> FALSE
      [] v[1] = "missing" -> FALSE
      [] v[1] = "str" -> v[2] # <<>>
      [] v[1] = "int" -> v[2] # 0
      [] v[1] = "list" -> v[2] # <<>>
      [] v[1] = "dict" -> v[2] # Missing

\* a or b
PyOr(a, b) == IF Truthy(a) THEN a ELSE b

\* ex.get(k) and ex.get(k, d) on a raw record (a function from keys).
Get(ex, k) == IF ex[k] = Missing THEN PyNone ELSE ex[k]
GetD(ex, k, d) == IF ex[k] = Missing THEN d ELSE ex[k]

\* str.strip() on the characters of a string.
RECURSIVE LStrip(_)
LStrip(s) ==
    IF s # <<>> /\ Head(s) \in Whitespace THEN LStrip(Tail(s)) ELSE s

RECURSIVE RStrip(_)
RStrip(s) ==
    IF s # <<>> /\ s[Len(s)] \in Whitespace
    THEN RStrip(SubSeq(s, 1, Len(s) - 1))
    ELSE s

Strip(s) == RStrip(LStrip(s))

\* " ".join(parts) on a sequence of character sequences.
RECURSIVE Join(_)
Join(parts) ==
    IF parts = <<>> THEN <<>>
    ELSE IF Len(parts) = 1 THEN parts[1]
    ELSE parts[1] \o <<" ">> \o Join(Tail(parts))

\* [t.strip() for t in x if isinstance(t, str) and t.strip()]
RECURSIVE Parts(_)
Parts(items) ==
    IF items = <<>> THEN <<>>
    ELSE LET t == Head(items)
             rest == Parts(Tail(items))
         IN IF IsStr(t) /\ Strip(t[2]) # <<>>
            THEN <<Strip(t[2])>> \o rest
            ELSE rest

\* _to_str(x)
RECURSIVE _to_str(_)
_to_str(x) ==
    CASE x[1] = "none" -> PyNone
      [] x[1] = "str" -> Str(Strip(x[2]))
      [] x[1] = "list" ->
            IF Parts(x[2]) # <<>> THEN Str(Join(Parts(x[2]))) ELSE PyNone
      [] x[1] = "dict" -> _to_str(Get([text |-> x[2]], "text"))
      [] OTHER -> PyNone

\* ------------------------------------------------------------ normalizers
\* One pass of a generator's loop body on a raw record: the record it
\* yields, a skip, or the exception it raises.
Skip == <<"skip">>
Raise == <<"raise", "AttributeError">>
Rec(r) == <<"rec", r>>
IsRec(o) == o[1] = "rec"

\* (v or "").strip(): only a str has .strip
StripOrRaise(v) == IF IsStr(v) THEN Str(Strip(v[2])) ELSE Raise

\* gen_parallel with `if src or tgt`: a pair with one side is yielded.
gen_parallel_either(ex) ==
    LET src == StripOrRaise(PyOr(Get(ex, "src"), EmptyStr))
        tgt == StripOrRaise(PyOr(Get(ex, "tgt"), EmptyStr))
    IN IF src[1] = "raise" \/ tgt[1] = "raise" THEN Raise
       ELSE IF Truthy(src) \/ Truthy(tgt)
       THEN Rec(<< <<"src_lang", Lit("en")>>, <<"tgt_lang", Lit("hi")>>,
                   <<"src", src>>, <<"tgt", tgt>> >>)
       ELSE Skip

\* collect_samanantar.gen_parallel
gen_parallel(ex) ==
    LET src == StripOrRaise(PyOr(Get(ex, "src"), EmptyStr))
        tgt == StripOrRaise(PyOr(Get(ex, "tgt"), EmptyStr))
    IN IF src = Raise \/ tgt = Raise THEN Raise
       ELSE IF Truthy(src) /\ Truthy(tgt)
       THEN Rec(<< <<"src_lang", Lit("en")>>, <<"tgt_lang", Lit("hi")>>,
                   <<"src", src>>, <<"tgt", tgt>> >>)
       ELSE Skip

\* collect_samanantar.gen_hi
gen_hi(ex) ==
    LET tgt == StripOrRaise(PyOr(Get(ex, "tgt"), EmptyStr))
    IN IF tgt[1] = "raise" THEN Raise
       ELSE IF Truthy(tgt)
       THEN Rec(<< <<"lang", Lit("hi")>>, <<"text", tgt>> >>)
       ELSE Skip

\* collect_wikipedia.gen
gen_wikipedia(ex) ==
    LET text == StripOrRaise(PyOr(Get(ex, "text"), EmptyStr))
    IN IF text[1] = "raise" THEN Raise
       ELSE IF Truthy(text)
       THEN Rec(<< <<"lang", Lit("hi")>>, <<"text", text>>,
                   <<"title", PyOr(Get(ex, "title"), EmptyStr)>>,
                   <<"url", PyOr(Get(ex, "url"), EmptyStr)>> >>)
       ELSE Skip

\* collect_wikilingua.gen: the locals article and summary at line 146
wl_article(ex) == _to_str(Get(ex, "article"))

\* wl_summary with summary_text asked before highlights.
wl_summary_swapped(ex) ==
    LET summary == _to_str(Get(ex, "summary"))
    IN IF ~Truthy(summary)
       THEN PyOr(_to_str(Get(ex, "summary_text")), _to_str(Get(ex, "highlights")))
       ELSE summary

wl_summary(ex) ==
    LET summary == _to_str(Get(ex, "summary"))
    IN IF ~Truthy(summary)
       THEN PyOr(_to_str(Get(ex, "highlights")), _to_str(Get(ex, "summary_text")))
       ELSE summary

gen_wikilingua(ex) ==
    IF Truthy(wl_article(ex)) /\ Truthy(wl_summary(ex))
    THEN Rec(<< <<"lang", Lit("hi")>>, <<"article", wl_article(ex)>>,
                <<"summary", wl_summary(ex)>>, <<"url", GetD(ex, "url", EmptyStr)>> >>)
    ELSE Skip

\* collect_indicllm.gen
gen_indicllm(ex) ==
    LET txt == StripOrRaise(PyOr(PyOr(Get(ex, "text"), Get(ex, "content")), EmptyStr))
    IN IF txt[1] = "raise" THEN Raise
       ELSE IF Truthy(txt)
       THEN Rec(<< <<"lang", Lit("hi_like")>>, <<"text", txt>>,
                   <<"note", Lit("unfiltered_mixed_hindi_family")>> >>)
       ELSE Skip

\* download_data.normalize_text
normalize_text(x) ==
    IF IsStr(x["text"]) THEN Str(Strip(x["text"][2]))
    ELSE IF IsStr(x["content"]) THEN Str(Strip(x["content"][2]))
    ELSE IF IsStr(x["tgt"]) THEN Str(Strip(x["tgt"][2]))
    ELSE PyNone

\* download_data.iter_text: the loop body up to the yield
gen_iter_text(ex) ==
    LET txt == normalize_text(ex)
    IN IF Truthy(txt) THEN Rec(<< <<"text", txt>> >>) ELSE Skip

\* The loop body of the generator g on the raw record ex.
GenBody(g, ex) ==
    CASE g = "gen_parallel" -> gen_parallel(ex)
      [] g = "gen_hi" -> gen_hi(ex)
      [] g = "gen_wikipedia" -> gen_wikipedia(ex)
      [] g = "gen_wikilingua" -> gen_wikilingua(ex)
      [] g = "gen_indicllm" -> gen_indicllm(ex)
      [] g = "iter_text" -> gen_iter_text(ex)

\* ------------------------------------------------------------- json.dumps
\* The characters json.dumps(rec, ensure_ascii=False) writes: "dq" is the
\* double quote, "bs" the backslash; a newline inside a string is escaped.
RECURSIVE EscapeChars(_)
EscapeChars(s) ==
    IF s = <<>> THEN <<>>
    ELSE (IF Head(s) = "nl" THEN <<"bs", "n">> ELSE <<Head(s)>>) \o EscapeChars(Tail(s))

DumpsStr(s) == <<"dq">> \o EscapeChars(s) \o <<"dq">>

RECURSIVE DumpsVal(_)
RECURSIVE DumpsItems(_)
DumpsItems(items) ==
    IF items = <<>> THEN <<>>
    ELSE IF Len(items) = 1 THEN DumpsVal(items[1])
    ELSE DumpsVal(items[1]) \o <<",", " ">> \o DumpsItems(Tail(items))

DumpsVal(v) ==
    CASE v[1] = "none" -> <<"null">>
      [] v[1] = "str" -> DumpsStr(v[2])
      [] v[1] = "int" -> <<IF v[2] = 0 THEN "0" ELSE "1">>
      [] v[1] = "list" -> <<"[">> \o DumpsItems(v[2]) \o <<"]">>
      [] v[1] = "dict" ->
            IF v[2] = Missing THEN <<"{", "}">>
            ELSE <<"{">> \o DumpsStr(<<"text">>) \o <<":", " ">> \o DumpsVal(v[2]) \o <<"}">>

RECURSIVE DumpsFields(_)
DumpsFields(r) ==
    IF r = <<>> THEN <<>>
    ELSE DumpsStr(<<r[1][1]>>) \o <<":", " ">> \o DumpsVal(r[1][2])
         \o (IF Len(r) = 1 THEN <<>> ELSE <<",", " ">> \o DumpsFields(Tail(r)))

json_dumps(r) == <<"{">> \o DumpsFields(r) \o <<"}">>

\* ------------------------------------------------------------------ state
VARIABLES
    coll,       \* the collector function that runs
    gen,        \* the generator feeding the current write_jsonl call
    limit,      \* --limit: PyNone or PyInt(k)
    ds,         \* the raw records of the dataset (one period when cyclic)
    cyclic,     \* TRUE: the provider never runs out (ds repeats)
    pc,         \* where the collector is
    ci,         \* collect_wikilingua: index of the candidate being tried
    handle,     \* collect_wikilingua: ds, 0 for None, else the candidate loaded
    tried,      \* collect_wikilingua: the list tried
    err,        \* the exception that ended the run, PyNone if none
    pos,        \* raw records pulled from the provider by this generator
    n,          \* take / iter_text: the counter n
    ex,         \* the raw record the loop body works on
    out,        \* what the loop body did with ex, PyNone before it ran
    pending,    \* records yielded and not yet written
    emitted,    \* records yielded to this write_jsonl call, in order
    fs,         \* the output files: path -> [exists, data]
    calls       \* the load_dataset calls made so far, with their outcomes

vars == <<coll, gen, limit, ds, cyclic, pc, ci, handle, tried, err, pos, n, ex,
          out, pending, emitted, fs, calls>>

Keys == {"src", "tgt", "text", "content", "title", "url",
         "article", "summary", "highlights", "summary_text"}

NoFields == [k \in Keys |-> Missing]

Collectors == {"collect_samanantar", "collect_wikipedia", "collect_wikilingua",
               "collect_indicllm", "collect_wiki"}

\* The generator of a collector's first write_jsonl call.
FirstGen(c) ==
    CASE c = "collect_samanantar" -> "gen_parallel"
      [] c = "collect_wikipedia" -> "gen_wikipedia"
      [] c = "collect_wikilingua" -> "gen_wikilingua"
      [] c = "collect_indicllm" -> "gen_indicllm"
      [] c = "collect_wiki" -> "iter_text"

\* outpath of the write_jsonl call fed by generator g
OutPath(g) ==
    CASE g = "gen_parallel" -> "samanantar/en_hi_parallel.jsonl"
      [] g = "gen_hi" -> "samanantar/hi_mono.jsonl"
      [] g = "gen_wikipedia" -> "wikipedia/hi_mono.jsonl"
      [] g = "gen_wikilingua" -> "wikilingua/hi_sum.jsonl"
      [] g = "gen_indicllm" -> "indicllm/hi_mixed.jsonl"
      [] g = "iter_text" -> "wikipedia_hi.jsonl"

Gens == {"gen_parallel", "gen_hi", "gen_wikipedia", "gen_wikilingua",
         "gen_indicllm", "iter_text"}

Paths == {OutPath(g) : g \in Gens}

\* collect_wikilingua: the (builder, config) pairs, in the order tried
Candidates == << <<"wiki_lingua", "hindi">>, <<"wikilingua", "hi">>,
                 <<"wiki_lingua", "hi">> >>

\* What load_dataset does: returns a dataset, or raises with a reason.
LoadOutcomes == {"ok", "e1", "e2"}

\* ----------------------------------------------------------------- inputs
SeqsUpTo(S, k) == UNION {[1..m -> S] : m \in 0..k}

StrVals == {Str(s) : s \in SeqsUpTo(Chars, MaxStrLen)}
ListElems == {Str(<<" ">>), Str(<<"a">>), Str(<<"a", " ">>), PyInt(1)}
ListVals == {List(l) : l \in SeqsUpTo(ListElems, MaxListLen)}
FlatVals == {PyNone, PyInt(0), PyInt(1)} \cup StrVals \cup ListVals
DictVals == {Dict(v) : v \in FlatVals \cup {Missing}}
              \cup {Dict(Dict(v)) : v \in FlatVals \cup {Missing}}
\* every shape a raw field can have, Missing for an absent key
FieldValues == FlatVals \cup DictVals \cup {Missing}

SA == Str(<<" ", "a">>)
SB == Str(<<"a", "nl", "a">>)
SW == Str(<<" ">>)
LA == List(<<Str(<<"a">>), Str(<<"a", " ">>)>>)
FewValues == {Missing, SW, SA}

F1(k1, v1) == [NoFields EXCEPT ![k1] = v1]
F2(k1, v1, k2, v2) == [NoFields EXCEPT ![k1] = v1, ![k2] = v2]

\* A few raw records per dataset, for sources of several records.
SmallRecs(c) ==
    CASE c = "collect_samanantar" ->
            {F2("src", SA, "tgt", SB), F2("src", SA, "tgt", SW), F2("src", LA, "tgt", SA)}
      [] c = "collect_wikipedia" ->
            {F2("text", SB, "url", SA), F1("text", SW), F1("text", LA)}
      [] c = "collect_wikilingua" ->
            {F2("article", LA, "highlights", SB), F2("article", SA, "summary", SW),
             F2("article", Dict(SA), "summary", SA)}
      [] c = "collect_indicllm" ->
            {F1("content", SB), F2("text", SW, "content", SW), F1("text", LA)}
      [] c = "collect_wiki" ->
            {F1("text", SB), F2("text", SW, "content", SA), F2("text", LA, "tgt", SA)}

\* Raw records with one field of every shape, for sources of one record.
WideRecs(c) ==
    CASE c = "collect_samanantar" ->
            {F2("src", v, "tgt", w) : v \in FieldValues, w \in FewValues}
            \cup {F2("src", w, "tgt", v) : v \in FieldValues, w \in FewValues}
      [] c = "collect_wikipedia" ->
            {F2("text", v, "title", w) : v \in FieldValues, w \in FewValues}
            \cup {[NoFields EXCEPT !["text"] = SA, !["title"] = v, !["url"] = w] :
                      v \in FieldValues, w \in FewValues}
      [] c = "collect_wikilingua" ->
            {[NoFields EXCEPT !["article"] = a, !["summary"] = s,
                              !["highlights"] = h, !["summary_text"] = t] :
                <<a, s, h, t>> \in (FieldValues \X FewValues \X FewValues \X FewValues)
                              \cup (FewValues \X FieldValues \X FewValues \X FewValues)
                              \cup (FewValues \X FewValues \X FieldValues \X FewValues)
                              \cup (FewValues \X FewValues \X FewValues \X FieldValues)}
            \cup {[NoFields EXCEPT !["article"] = SA, !["summary"] = SA, !["url"] = v] :
                      v \in FieldValues}
      [] c = "collect_indicllm" ->
            {F2("text", v, "content", w) : v \in FieldValues, w \in FewValues}
            \cup {F2("text", w, "content", v) : v \in FieldValues, w \in FewValues}
      [] c = "collect_wiki" ->
            {[NoFields EXCEPT !["text"] = x, !["content"] = y, !["tgt"] = z] :
                <<x, y, z>> \in (FieldValues \X FewValues \X FewValues)
                              \cup (FewValues \X FieldValues \X FewValues)
                              \cup (FewValues \X FewValues \X FieldValues)}

Limits == {PyNone} \cup {PyInt(k) : k \in 0..MaxLimit}

NoFile == [exists |-> FALSE, data |-> <<>>]
OldFile == [exists |-> TRUE, data |-> <<"old", "nl">>]

Init ==
    /\ coll \in Collectors
    /\ gen = FirstGen(coll)
    /\ \/ /\ ds \in SeqsUpTo(SmallRecs(coll), MaxRaw)
          /\ limit \in Limits
          /\ cyclic \in (IF ds = <<>> THEN {FALSE} ELSE BOOLEAN)
          /\ fs \in {[p \in Paths |-> NoFile], [p \in Paths |-> OldFile]}
       \/ /\ ds \in {<<r>> : r \in WideRecs(coll)}
          /\ limit = PyNone
          /\ cyclic = FALSE
          /\ fs = [p \in Paths |-> NoFile]
    /\ pc = "load"
    /\ ci = 1
    /\ handle = 0
    /\ tried = <<>>
    /\ err = PyNone
    /\ pos = 0
    /\ n = 0
    /\ ex = NoFields
    /\ out = PyNone
    /\ pending = <<>>
    /\ emitted = <<>>
    /\ calls = <<>>

\* ---------------------------------------------------------------- actions
\* load_dataset(...) of a collector that names one dataset: the dataset, or
\* the provider's exception, which nothing catches.
LoadDataset ==
    /\ pc = "load"
    /\ coll # "collect_wikilingua"
    /\ \E o \in LoadOutcomes :
          /\ calls' = Append(calls, <<gen, "train", o>>)
          /\ IF o = "ok"
             THEN pc' = "open" /\ err' = err
             ELSE pc' = "raised" /\ err' = <<"load", o>>
    /\ UNCHANGED <<out, coll, gen, limit, ds, cyclic, ci, handle, tried, pos, n, ex,
                   pending, emitted, fs>>

\* tried.insert(0, ...): the failures end up in reverse order.
tried_insert_front(tr, cand, e) == <<<<cand[1], cand[2], e>>>> \o tr

\* tried.append(f"{builder}/{config}: {e}")
tried_append(tr, cand, e) == Append(tr, <<cand[1], cand[2], e>>)

\* collect_wikilingua: one pass of the loop over the candidates.
ResolveTry ==
    /\ pc = "load"
    /\ coll = "collect_wikilingua"
    /\ \E o \in LoadOutcomes :
          /\ calls' = Append(calls, <<Candidates[ci][1], Candidates[ci][2], o>>)
          /\ IF o = "ok"
             THEN /\ handle' = ci
                  /\ pc' = "check"
                  /\ UNCHANGED <<tried, ci>>
             ELSE /\ tried' = tried_append(tried, Candidates[ci], o)
                  /\ handle' = 0
                  /\ IF ci < Len(Candidates)
                     THEN ci' = ci + 1 /\ pc' = "load"
                     ELSE ci' = ci /\ pc' = "check"
    /\ UNCHANGED <<out, coll, gen, limit, ds, cyclic, err, pos, n, ex, pending,
                   emitted, fs>>

\* collect_wikilingua: if ds is None: raise RuntimeError(... tried ...)
ResolveCheck ==
    /\ pc = "check"
    /\ IF handle = 0
       THEN pc' = "raised" /\ err' = <<"RuntimeError", tried>>
       ELSE pc' = "open" /\ err' = err
    /\ UNCHANGED <<out, coll, gen, limit, ds, cyclic, ci, handle, tried, pos, n, ex,
                   pending, emitted, fs, calls>>

\* path.open("a"): what the file held stays.
open_a(f) == [exists |-> TRUE, data |-> f.data]

\* path.open("w"): the file exists and is empty
open_w(f) == [exists |-> TRUE, data |-> <<>>]

\* write_jsonl up to its first request for a record; take and iter_text
\* start with n = 0.
Open ==
    /\ pc = "open"
    /\ fs' = [fs EXCEPT ![OutPath(gen)] = open_w(@)]
    /\ n' = 0
    /\ pc' = "pull"
    /\ UNCHANGED <<out, coll, gen, limit, ds, cyclic, ci, handle, tried, err, pos, ex,
                   pending, emitted, calls>>

Exhausted == ~cyclic /\ pos = Len(ds)

\* for ex in ds: the generator asks the provider for the next raw record.
Pull ==
    /\ pc = "pull"
    /\ IF Exhausted
       THEN pc' = "close" /\ UNCHANGED <<ex, out, pos>>
       ELSE /\ cyclic => pos < MaxPulls
            /\ ex' = ds[(pos % Len(ds)) + 1]
            /\ out' = PyNone
            /\ pos' = pos + 1
            /\ pc' = "body"
    /\ UNCHANGED <<coll, gen, limit, ds, cyclic, ci, handle, tried, err, n,
                   pending, emitted, fs, calls>>

\* for rec in list(records): the generator runs on before anything is
\* written.
YieldToGenerator == "resume"

\* A yield hands the record to write_jsonl's loop body before the
\* generator runs again.
YieldTo == "write"

\* The loop body of the generator on ex: raise, skip, or yield.
Body ==
    /\ pc = "body"
    /\ out' = GenBody(gen, ex)
    /\ LET o == GenBody(gen, ex)
       IN CASE o[1] = "raise" ->
                 /\ pc' = "raised"
                 /\ err' = <<o[2]>>
                 /\ UNCHANGED <<pending, emitted>>
            [] o[1] = "skip" ->
                 /\ pc' = "pull"
                 /\ UNCHANGED <<err, pending, emitted>>
            [] o[1] = "rec" ->
                 /\ pending' = Append(pending, o[2])
                 /\ emitted' = Append(emitted, o[2])
                 /\ pc' = YieldTo
                 /\ err' = err
    /\ UNCHANGED <<coll, gen, limit, ds, cyclic, ci, handle, tried, pos, n, ex,
                   fs, calls>>

\* f.write(json.dumps(rec, ensure_ascii=False) + "\n")
f_write(data, rec) == data \o json_dumps(rec) \o <<"nl">>

Write ==
    /\ pc = "write"
    /\ fs' = [fs EXCEPT ![OutPath(gen)].data = f_write(@, Head(pending))]
    /\ pending' = Tail(pending)
    /\ pc' = "resume"
    /\ UNCHANGED <<out, coll, gen, limit, ds, cyclic, ci, handle, tried, err, pos, n,
                   ex, emitted, calls>>

\* take: n += 1; if n >= limit: break   (limit is not None)
take_break(lim, k) == k >= lim[2]

\* iter_text: n += 1; if limit and n >= limit: break
iter_text_break(lim, k) == Truthy(lim) /\ k >= lim[2]

\* write_jsonl asks for the next record: the generator resumes after its
\* yield.
Resume ==
    /\ pc = "resume"
    /\ IF gen = "iter_text"
       THEN /\ n' = n + 1
            /\ pc' = IF iter_text_break(limit, n + 1) THEN "close" ELSE "pull"
       ELSE IF limit = PyNone
            THEN n' = n /\ pc' = "pull"
            ELSE /\ n' = n + 1
                 /\ pc' = IF take_break(limit, n + 1) THEN "close" ELSE "pull"
    /\ UNCHANGED <<out, coll, gen, limit, ds, cyclic, ci, handle, tried, err, pos, ex,
                   pending, emitted, fs, calls>>

\* The records ran out: the file is closed and write_jsonl returns.
\* collect_samanantar goes on to its second dataset and file.
Close ==
    /\ pc = "close"
    /\ IF gen = "gen_parallel"
       THEN /\ gen' = "gen_hi"
            /\ pc' = "load"
            /\ pos' = 0
            /\ n' = 0
            /\ ex' = NoFields
            /\ out' = PyNone
            /\ emitted' = <<>>
       ELSE /\ pc' = "done"
            /\ UNCHANGED <<gen, pos, n, ex, out, emitted>>
    /\ UNCHANGED <<coll, limit, ds, cyclic, ci, handle, tried, err, pending, fs,
                   calls>>

Next ==
    \/ LoadDataset
    \/ ResolveTry
    \/ ResolveCheck
    \/ Open
    \/ Pull
    \/ Body
    \/ Write
    \/ Resume
    \/ Close

Spec == Init /\ [][Next]_vars

\* ----------------------------------------------------------------- claims
\* The loop body has run on ex (out tells what it did).
Normalized == out # PyNone

\* The value of field k of a canonical record (a sequence of pairs).
HasField(r, k) == \E i \in 1..Len(r) : r[i][1] = k
Field(r, k) == r[CHOOSE i \in 1..Len(r) : r[i][1] = k][2]

\* A string with something left after trimming.
NonEmptyStr(v) == IsStr(v) /\ Strip(v[2]) # <<>>

\* C3: normalization never raises, whatever the shape of the raw record's
\* fields: the loop body of every generator yields a record or skips.
C3_NormalizationNeverRaises ==
    Normalized => out[1] \in {"rec", "skip"}

\* C5: gen_parallel yields a record exactly when src and tgt are both
\* strings that are non-empty after trimming, and the record is
\* {src_lang: en, tgt_lang: hi, src: trimmed src, tgt: trimmed tgt}.
C5_ParallelIffBothSides ==
    (gen = "gen_parallel" /\ Normalized) =>
        /\ out[1] = "rec" <=> (NonEmptyStr(ex["src"]) /\ NonEmptyStr(ex["tgt"]))
        /\ out[1] = "rec" =>
              out[2] = << <<"src_lang", Lit("en")>>, <<"tgt_lang", Lit("hi")>>,
                          <<"src", Str(Strip(ex["src"][2]))>>,
                          <<"tgt", Str(Strip(ex["tgt"][2]))>> >>

\* C5 witness: a pair whose two sides need trimming was yielded.
C5_Witness ==
    /\ gen = "gen_parallel"
    /\ ex["src"] = SA
    /\ ex["tgt"] = Str(<<"a", " ">>)
    /\ out[1] = "rec"

\* C7: _to_str of a string is the trimmed string, and None when nothing
\* is left after trimming (here on the article field of a raw record).
C7_ToStrEmptyIsNone ==
    (gen = "gen_wikilingua" /\ Normalized /\ IsStr(ex["article"])) =>
        _to_str(ex["article"]) =
            (IF Strip(ex["article"][2]) = <<>> THEN PyNone
             ELSE Str(Strip(ex["article"][2])))

\* The first of the extractions vs that is present, PyNone if none is.
RECURSIVE FirstPresent(_)
FirstPresent(vs) ==
    IF vs = <<>> THEN PyNone
    ELSE IF NonEmptyStr(Head(vs)) THEN Head(vs)
    ELSE FirstPresent(Tail(vs))

\* C10: collect_wikilingua.gen yields a record exactly when the article
\* and one of summary, highlights, summary_text extract to something; its
\* article is the extraction of article and its summary the first
\* extraction, in that order, that is present.
C10_SummaryFallbackOrder ==
    (gen = "gen_wikilingua" /\ Normalized) =>
        LET article == _to_str(Get(ex, "article"))
            summary == FirstPresent(<<_to_str(Get(ex, "summary")),
                                      _to_str(Get(ex, "highlights")),
                                      _to_str(Get(ex, "summary_text"))>>)
        IN /\ out[1] = "rec" <=> (NonEmptyStr(article) /\ NonEmptyStr(summary))
           /\ out[1] = "rec" =>
                 /\ Field(out[2], "article") = article
                 /\ Field(out[2], "summary") = summary

\* C10 witness: summary is blank and highlights and summary_text differ.
C10_Witness ==
    /\ gen = "gen_wikilingua"
    /\ ex["summary"] = SW
    /\ ex["highlights"] = SA
    /\ ex["summary_text"] = Str(<<"a", "a">>)
    /\ out[1] = "rec"
    /\ Field(out[2], "summary") = Str(<<"a">>)

\* The raw records the provider can hand out within the model's horizon.
Source ==
    IF cyclic THEN [i \in 1..MaxPulls |-> ds[((i - 1) % Len(ds)) + 1]] ELSE ds

\* ex is normalizable by generator g: its loop body yields a record.
Normalizable(g, r) == GenBody(g, r)[1] = "rec"

\* The records of the normalizable ones among the first k raw records.
RECURSIVE Yields(_, _, _)
Yields(g, src, k) ==
    IF k = 0 THEN <<>>
    ELSE Yields(g, src, k - 1)
         \o (IF Normalizable(g, src[k]) THEN <<GenBody(g, src[k])[2]>> ELSE <<>>)

\* The position in src of its L-th normalizable record (0 if none).
PullsFor(g, src, L) ==
    IF \E k \in 1..Len(src) : Len(Yields(g, src, k)) = L
    THEN CHOOSE k \in 1..Len(src) :
            Len(Yields(g, src, k)) = L /\ Len(Yields(g, src, k - 1)) = L - 1
    ELSE 0

\* The run of the current generator is over: its records ran out, or an
\* exception left its loop body.
RunOver == pc \in {"close", "done"} \/ (pc = "raised" /\ err[1] = "AttributeError")

\* C1: with a limit L >= 1 and a source holding at least L normalizable
\* records, the bounded iterator never pulls past the raw record that gives
\* the L-th record, and ends having emitted exactly the first L
\* normalizable records in source order.
C1_ExactlyFirstL ==
    (limit[1] = "int" /\ limit[2] >= 1
        /\ Len(Yields(gen, Source, Len(Source))) >= limit[2]) =>
        /\ pos <= PullsFor(gen, Source, limit[2])
        /\ RunOver =>
              /\ emitted = SubSeq(Yields(gen, Source, Len(Source)), 1, limit[2])
              /\ pos = PullsFor(gen, Source, limit[2])

\* C2: with a limit L >= 0 set, no more than L records are ever emitted,
\* and with L = 0 nothing is pulled and nothing is emitted.
C2_NeverMoreThanLimit ==
    limit[1] = "int" =>
        /\ Len(emitted) <= limit[2]
        /\ limit[2] = 0 => pos = 0

\* The lines of a file: its characters split at each newline.
RECURSIVE Lines(_)
Lines(data) ==
    IF data = <<>> THEN <<>>
    ELSE LET k == CHOOSE i \in 1..Len(data) :
                     data[i] = "nl" /\ \A j \in 1..(i - 1) : data[j] # "nl"
         IN <<SubSeq(data, 1, k - 1)>> \o Lines(SubSeq(data, k + 1, Len(data)))

\* The records written to the file of the current write_jsonl call.
Written == SubSeq(emitted, 1, Len(emitted) - Len(pending))

MonolingualShape(r) ==
    HasField(r, "lang") /\ HasField(r, "text") /\ NonEmptyStr(Field(r, "text"))
ParallelShape(r) ==
    /\ HasField(r, "src_lang") /\ HasField(r, "tgt_lang")
    /\ HasField(r, "src") /\ NonEmptyStr(Field(r, "src"))
    /\ HasField(r, "tgt") /\ NonEmptyStr(Field(r, "tgt"))
SummarizationShape(r) ==
    /\ HasField(r, "lang")
    /\ HasField(r, "article") /\ NonEmptyStr(Field(r, "article"))
    /\ HasField(r, "summary") /\ NonEmptyStr(Field(r, "summary"))

\* C6: every record written to an output file has one of the three
\* canonical shapes, with its required fields present and non-empty.
C6_WrittenRecordsCanonical ==
    \A i \in 1..Len(Written) :
        \/ MonolingualShape(Written[i])
        \/ ParallelShape(Written[i])
        \/ SummarizationShape(Written[i])

\* C8: when write_jsonl has finished, the file holds exactly the records
\* of this call, one per line and in order, whatever it held before; with
\* no record the file exists and is empty.
C8_FileIsExactlyThisRun ==
    pc = "close" =>
        LET f == fs[OutPath(gen)]
        IN /\ f.exists
           /\ Len(Lines(f.data)) = Len(emitted)
           /\ \A i \in 1..Len(emitted) : Lines(f.data)[i] = json_dumps(emitted[i])
           /\ f.data # <<>> => f.data[Len(f.data)] = "nl"

\* C8 witness: a call that wrote two records, one holding a newline, over
\* a file that existed before.
C8_Witness ==
    /\ pc = "close"
    /\ gen = "gen_wikipedia"
    /\ fs[OutPath("gen_indicllm")] = OldFile
    /\ Len(emitted) = 2
    /\ Field(emitted[1], "text") = SB

\* C9: a raw record is pulled or worked on only when every record
\* emitted before is in the file, and at most one record is ever pending.
C9_OneRecordInFlight ==
    /\ Len(pending) <= 1
    /\ pc \in {"pull", "body"} =>
          /\ pending = <<>>
          /\ Len(Lines(fs[OutPath(gen)].data)) = Len(emitted)

\* C9 witness: the second raw record is in the loop body after the first
\* record was emitted and written.
C9_Witness ==
    /\ pc = "body"
    /\ pos = 2
    /\ Len(emitted) = 1
    /\ Lines(fs[OutPath(gen)].data) = <<json_dumps(emitted[1])>>

\* C4: collect_wikilingua calls load_dataset on the candidates in list
\* order and stops at the first that loads, whose handle it uses; every
\* candidate before it is in tried with its reason; if none loads it raises
\* an error listing all of them in order with their reasons, and nothing
\* is read or written.
C4_ResolverOrder ==
    coll = "collect_wikilingua" =>
        /\ Len(calls) <= Len(Candidates)
        /\ \A i \in 1..Len(calls) :
              /\ <<calls[i][1], calls[i][2]>> = Candidates[i]
              /\ i < Len(calls) => calls[i][3] # "ok"
        /\ tried = SelectSeq(calls, LAMBDA c : c[3] # "ok")
        /\ pc \notin {"load", "check", "raised"} =>
              /\ calls # <<>>
              /\ calls[Len(calls)][3] = "ok"
              /\ handle = Len(calls)
        /\ pc = "raised" =>
              /\ err = <<"RuntimeError", calls>>
              /\ Len(calls) = Len(Candidates)
              /\ pos = 0
              /\ emitted = <<>>
              /\ fs[OutPath(gen)] \in {NoFile, OldFile}

\* C4 witness: X failed, Y loaded, Z was never tried, and the run went on
\* to write a record.
C4_Witness ==
    /\ coll = "collect_wikilingua"
    /\ calls = << <<"wiki_lingua", "hindi", "e2">>, <<"wikilingua", "hi", "ok">> >>
    /\ tried = << <<"wiki_lingua", "hindi", "e2">> >>
    /\ handle = 2
    /\ pc = "resume"

====
